---- MODULE Spec2Model ----
(***************************************************************************)
(* The LLM client of sublinkPro (package llm: GetConfig, buildEndpointURL, *)
(* callAPI, OrganizeNodes, GenerateRules, TestConnection) together with    *)
(* its three gin handlers (package api: LLMOrganizeNodes,                  *)
(* LLMGenerateRules, LLMTestConnection).                                   *)
(*                                                                         *)
(* A URL is a sequence of units.  A unit is one character, except "h",     *)
(* which abbreviates a scheme-and-host prefix such as "https://host" (it   *)
(* neither ends in "/" nor overlaps any suffix the code looks for), and    *)
(* "\n", which stands for any ASCII control byte.                          *)
(***************************************************************************)
EXTENDS Integers, Sequences, FiniteSets, TLC

\* ------------------------------------------------------------------ bounds
NumProcs == 2
MaxNodes == 2
MaxChoices == 2
MaxSegs == 3

Procs == 1 .. NumProcs

VARIABLES
    settings,   \* the settings store behind models.GetSetting
    pc,         \* each request handler's position
    req,        \* the JSON body the handler was called with
    args,       \* nodes/clientType/instruction handed to the llm package
    raw,        \* GetConfig's locals apiUrl, apiKey, model
    cfg,        \* the LLMConfig values, by slot
    wire,       \* the HTTP request handed to client.Do
    sent,       \* how many times the invocation called client.Do
    called,     \* whether the invocation entered callAPI
    reply,      \* what the network gave back to client.Do
    ret,        \* callAPI's return values (result, err)
    out,        \* the response the handler wrote
    changed     \* history: the store was updated since the handler started

vars == <<settings, pc, req, args, raw, cfg, wire, sent, called, reply, ret, out, changed>>

\* ------------------------------------------------------------- strings
Slash == "/"
V1Suffix == <<"/", "v", "1">>
ChatCompletionsSuffix ==
    <<"/", "c", "h", "a", "t", "/", "c", "o", "m", "p", "l", "e", "t", "i", "o", "n", "s">>
V1ChatCompletions == V1Suffix \o ChatCompletionsSuffix
DefaultModel == "gpt-3.5-turbo"
PingText == "reply-ok"              \* the Chinese text asking to reply ok
CtlChars == {"\n"}

\* strings.HasSuffix
HasSuffix(s, suffix) ==
    /\ Len(s) >= Len(suffix)
    /\ SubSeq(s, Len(s) - Len(suffix) + 1, Len(s)) = suffix

\* strings.TrimSuffix: a mutant of TrimRight that drops one trailing unit only
TrimOneRight(s, cut) ==
    IF s # <<>> /\ s[Len(s)] = cut THEN SubSeq(s, 1, Len(s) - 1) ELSE s

\* strings.TrimRight with a one-character cutset
RECURSIVE TrimRight(_, _)
TrimRight(s, cut) ==
    IF s = <<>> THEN s
    ELSE IF s[Len(s)] = cut THEN TrimRight(SubSeq(s, 1, Len(s) - 1), cut)
    ELSE s

buildEndpointURL(apiUrl) ==
    IF HasSuffix(apiUrl, ChatCompletionsSuffix) THEN apiUrl
    ELSE IF HasSuffix(apiUrl, V1Suffix) THEN apiUrl \o ChatCompletionsSuffix
    ELSE TrimRight(apiUrl, Slash) \o V1ChatCompletions

\* http.NewRequest fails when url.Parse rejects the endpoint; url.Parse rejects
\* every string that holds an ASCII control byte.
urlParseFails(endpoint) == \E i \in 1 .. Len(endpoint) : endpoint[i] \in CtlChars

\* ------------------------------------------------------------- values
NoBody == [json |-> "none", tag |-> "absent", items |-> <<>>]
NoErr == [kind |-> "nil", status |-> 0, body |-> NoBody, detail |-> ""]
Err(kind) == [NoErr EXCEPT !.kind = kind]
NoReply == [net |-> "none", status |-> 0, readOK |-> FALSE, body |-> NoBody]
NoRet == [result |-> "", err |-> NoErr]
NoOut == [code |-> "none", msg |-> "", err |-> NoErr, result |-> ""]
NoConfig == [APIUrl |-> <<>>, APIKey |-> "", Model |-> ""]
NoRaw == [apiUrl |-> <<>>, apiKey |-> "", model |-> ""]
NoWire == [set |-> FALSE, endpoint |-> <<>>, auth |-> <<>>, contentType |-> "",
           body |-> [model |-> "", messages |-> <<>>, temperature |-> ""]]
NoArgs == [nodes |-> <<>>, clientType |-> "", instruction |-> ""]
NoReq == [op |-> "none", bindOK |-> FALSE, Nodes |-> <<>>, Instruction |-> "",
          ClientType |-> "", APIUrl |-> <<>>, APIKey |-> "", Model |-> ""]

\* ------------------------------------------------------------- settings
\* a mutant of GetSetting: the key and model lookups both read llm_model
GetSettingOneKey(key) ==
    IF key = "llm_api_url" THEN settings[key] ELSE settings["llm_model"]

\* models.GetSetting: the store's value under the key
GetSetting(key) == settings[key]

\* a mutant of ConfigError: the key is not checked
ConfigErrorUrlOnly(r) ==
    IF r.apiUrl = <<>> THEN Err("MissingAPIUrl") ELSE NoErr

\* GetConfig's checks, on the three values it read: the error it returns
ConfigError(r) ==
    IF r.apiUrl = <<>> THEN Err("MissingAPIUrl")
    ELSE IF r.apiKey = "" THEN Err("MissingAPIKey")
    ELSE NoErr

\* the LLMConfig GetConfig returns when the checks pass
MakeConfig(r) ==
    [APIUrl |-> r.apiUrl, APIKey |-> r.apiKey,
     Model |-> IF r.model = "" THEN DefaultModel ELSE r.model]

\* a mutant of ConfigSlot: one package-level LLMConfig for every invocation
ConfigSlotShared(p) == 1

\* GetConfig returns a freshly allocated LLMConfig: one slot per invocation
ConfigSlot(p) == p

\* ------------------------------------------------------------- nodes
\* protocol.GetProtocolFromLink: the scheme in front of "://"
GetProtocolFromLink(link) ==
    IF Len(link) >= 2 /\ link[2] = "://" THEN link[1] ELSE ""

\* a mutant of ToNodeInfo: the link itself is sent as the protocol
ToNodeInfoLeaky(n) ==
    [ID |-> n.ID, Name |-> n.Name, Protocol |-> n.Link,
     Country |-> n.Country, Group |-> n.Group]

\* the handlers' conversion of one request node to llm.NodeInfo
ToNodeInfo(n) ==
    [ID |-> n.ID, Name |-> n.Name, Protocol |-> GetProtocolFromLink(n.Link),
     Country |-> n.Country, Group |-> n.Group]

ConvertNodes(ns) == [i \in 1 .. Len(ns) |-> ToNodeInfo(ns[i])]

\* json.Marshal of one NodeInfo: its five tagged fields, in order
MarshalNode(n) ==
    << <<"id", n.ID>>, <<"name", n.Name>>, <<"protocol", n.Protocol>>,
       <<"country", n.Country>>, <<"group", n.Group>> >>

MarshalNodes(nodes) == [i \in 1 .. Len(nodes) |-> MarshalNode(nodes[i])]

\* ------------------------------------------------------------- prompts
\* A message content is a format string (named by template), the node JSON
\* embedded in it and the strings interpolated into it.
Text(template, nodesJSON, interpolated) ==
    [template |-> template, nodes |-> nodesJSON, args |-> interpolated]

ChatMessage(role, content) == [Role |-> role, Content |-> content]

OrganizeMessages(nodes, instruction) ==
    << ChatMessage("system", Text("OrganizeSystem", <<>>, <<>>)),
       ChatMessage("user",
           IF instruction = ""
           THEN Text("OrganizeUserDefault", MarshalNodes(nodes), <<>>)
           ELSE Text("OrganizeUser", MarshalNodes(nodes), <<instruction>>)) >>

FormatDesc(clientType) ==
    CASE clientType = "clash" -> "ClashRulesFormat"
      [] clientType = "surge" -> "SurgeRulesFormat"
      [] OTHER -> "GenericRulesFormat"

RulesMessages(nodes, clientType, instruction) ==
    << ChatMessage("system",
           Text("RulesSystem", <<>>, <<clientType, FormatDesc(clientType)>>)),
       ChatMessage("user",
           IF instruction # ""
           THEN Text("RulesUser", MarshalNodes(nodes), <<instruction>>)
           ELSE Text("RulesUserDefault", MarshalNodes(nodes), <<>>)) >>

TestMessages == << ChatMessage("user", Text(PingText, <<>>, <<>>)) >>

BuildMessages(op, a) ==
    CASE op = "organize" -> OrganizeMessages(a.nodes, a.instruction)
      [] op = "rules" -> RulesMessages(a.nodes, a.clientType, a.instruction)
      [] OTHER -> TestMessages

\* ------------------------------------------------------------- callAPI
\* the ChatRequest callAPI marshals; max_tokens is zero and omitted
ChatRequest(config, messages) ==
    [model |-> config.Model, messages |-> messages, temperature |-> "0.7"]

\* the POST request callAPI builds
MakeRequest(config, messages) ==
    [set |-> TRUE,
     endpoint |-> buildEndpointURL(config.APIUrl),
     auth |-> <<"Bearer ", config.APIKey>>,
     contentType |-> "application/json",
     body |-> ChatRequest(config, messages)]

\* json.Unmarshal of a response body into ChatResponse.  A body is text that
\* is not JSON ("invalid"), JSON of another shape ("array"), the JSON null,
\* or a JSON object whose "choices" member is absent, null, a string or a list
\* of choices (each given by its message content).
Unmarshal(body) ==
    [ok |-> \/ body.json = "null"
            \/ body.json = "object" /\ body.tag \in {"absent", "null", "list"},
     Choices |->
        IF body.json = "object" /\ body.tag = "list"
        THEN [i \in 1 .. Len(body.items) |->
                [Index |-> i - 1,
                 Message |-> ChatMessage("assistant", body.items[i])]]
        ELSE <<>>]

\* a mutant of StatusIsOK: every 2xx status passes
StatusIs2xx(status) == status \in 200 .. 299

StatusIsOK(status) == status = 200

\* a mutant of FirstChoice: the last choice is taken
LastChoice(choices) == choices[Len(choices)]

FirstChoice(choices) == choices[1]

\* a mutant of EmptyResultErr: the parse error is reused
EmptyResultAsParseErr == Err("ParseFailed")

EmptyResultErr == Err("EmptyResult")

\* callAPI from the return of client.Do to its own return, for reply r
callAPIResponse(r) ==
    IF r.net # "ok"
    THEN [result |-> "", err |-> [Err("RequestFailed") EXCEPT !.detail = r.net]]
    ELSE IF ~r.readOK
    THEN [result |-> "", err |-> Err("ReadFailed")]
    ELSE IF ~StatusIsOK(r.status)
    THEN [result |-> "",
          err |-> [Err("UpstreamError") EXCEPT !.status = r.status, !.body = r.body]]
    ELSE LET chatResp == Unmarshal(r.body) IN
         IF ~chatResp.ok
         THEN [result |-> "", err |-> Err("ParseFailed")]
         ELSE IF Len(chatResp.Choices) = 0
         THEN [result |-> "", err |-> EmptyResultErr]
         ELSE [result |-> FirstChoice(chatResp.Choices).Message.Content,
               err |-> NoErr]

\* callAPI when http.NewRequest fails
callAPINewRequestFailed == [result |-> "", err |-> Err("NewRequestFailed")]

\* a mutant of AfterReply: a reply that is not 200 is tried again
AfterReplyRetry(r) ==
    IF r.net = "ok" /\ r.readOK /\ r.status # 200 THEN "call" ELSE "done"

\* callAPI returns once client.Do has returned, whatever it returned
AfterReply(r) == "done"

\* ------------------------------------------------------------- handlers
FailWithMsg(msg, e) == [code |-> "fail", msg |-> msg, err |-> e, result |-> ""]
OkDetailed(msg, result) == [code |-> "ok", msg |-> msg, err |-> NoErr, result |-> result]

\* a mutant of TestConnectionErr: an empty reply text passes
TestConnectionErrNoEmptyCheck(r) == r.err

\* TestConnection's return, from callAPI's
TestConnectionErr(r) ==
    IF r.err # NoErr THEN r.err
    ELSE IF r.result = "" THEN Err("EmptyReply")
    ELSE NoErr

\* what the handler answers before it calls the llm package, NoOut if nothing
PreCheck(r) ==
    IF ~r.bindOK THEN FailWithMsg("BadParams", NoErr)
    ELSE IF r.op \in {"organize", "rules"} /\ Len(r.Nodes) = 0
    THEN FailWithMsg("EmptyNodes", NoErr)
    ELSE IF r.op = "test" /\ (r.APIUrl = <<>> \/ r.APIKey = "")
    THEN FailWithMsg("TestMissingConfig", NoErr)
    ELSE NoOut

HandlerArgs(r) ==
    [nodes |-> ConvertNodes(r.Nodes),
     clientType |-> IF r.op = "rules" /\ r.ClientType = "" THEN "clash" ELSE r.ClientType,
     instruction |-> r.Instruction]

\* the LLMConfig LLMTestConnection builds from its request
TestConfig(r) ==
    [APIUrl |-> r.APIUrl, APIKey |-> r.APIKey,
     Model |-> IF r.Model = "" THEN DefaultModel ELSE r.Model]

\* the handler's answer when GetConfig fails with e
ConfigFailure(op, e) ==
    FailWithMsg(IF op = "organize" THEN "OrganizeFailed" ELSE "RulesFailed", e)

\* the handler's answer from callAPI's return
HandlerOutcome(op, r) ==
    CASE op = "organize" ->
            IF r.err # NoErr THEN FailWithMsg("OrganizeFailed", r.err)
            ELSE OkDetailed("OrganizeDone", r.result)
      [] op = "rules" ->
            IF r.err # NoErr THEN FailWithMsg("RulesFailed", r.err)
            ELSE OkDetailed("RulesDone", r.result)
      [] OTHER ->
            IF TestConnectionErr(r) # NoErr
            THEN FailWithMsg("TestFailed", TestConnectionErr(r))
            ELSE OkDetailed("TestOK", "")

\* ------------------------------------------------------------- inputs
HostUrl == <<"h">>
NodeSet ==
    {[ID |-> 1, Name |-> "a", Link |-> l, Country |-> "US", Group |-> "g"] :
        l \in {<<"vmess", "://", "secret1">>, <<"vmess", "://", "secret2">>}}
    \cup {[ID |-> 2, Name |-> "b", Link |-> <<"ss", "://", "secret1">>,
           Country |-> "JP", Group |-> ""]}
NodeLists == UNION {[1 .. n -> NodeSet] : n \in 0 .. MaxNodes}
Instructions == {"", "by-region"}
ClientTypes == {"", "surge", "quanx"}

OrganizeRequests ==
    {[NoReq EXCEPT !.op = "organize", !.bindOK = TRUE, !.Nodes = ns, !.Instruction = i] :
        ns \in NodeLists, i \in Instructions}
RulesRequests ==
    {[NoReq EXCEPT !.op = "rules", !.bindOK = TRUE, !.Nodes = ns[1], !.Instruction = i,
                   !.ClientType = ns[2]] :
        ns \in NodeLists \X ClientTypes, i \in Instructions}
TestRequests(urls) ==
    {[NoReq EXCEPT !.op = "test", !.bindOK = TRUE, !.APIUrl = u[1], !.APIKey = u[2],
                   !.Model = m] :
        u \in urls \X {"", "sk-1"}, m \in {"", "gpt-4"}}
BadRequests == {[NoReq EXCEPT !.op = o] : o \in {"organize", "rules", "test"}}
Requests ==
    OrganizeRequests \cup RulesRequests \cup BadRequests
    \cup TestRequests({<<>>, HostUrl, HostUrl \o <<"\n">>})

SettingUrls == {<<>>, HostUrl \o <<"/">>}
SettingKeys == {"", "sk-1"}
SettingModels == {"", "gpt-4"}

Contents == {"", "ok"}
ChoiceLists == UNION {[1 .. n -> Contents] : n \in 0 .. MaxChoices}
Bodies ==
    {[NoBody EXCEPT !.json = j] : j \in {"invalid", "array", "null"}}
    \cup {[NoBody EXCEPT !.json = "object", !.tag = t] : t \in {"absent", "null", "string"}}
    \cup {[json |-> "object", tag |-> "list", items |-> c] : c \in ChoiceLists}
Statuses == {200, 201, 500}
Replies ==
    {[NoReply EXCEPT !.net = n] : n \in {"refused", "timeout"}}
    \cup {[NoReply EXCEPT !.net = "ok", !.status = s] : s \in Statuses}
    \cup {[net |-> "ok", status |-> s, readOK |-> TRUE, body |-> b] :
            s \in Statuses, b \in Bodies}

\* ------------------------------------------------------------- actions
Unconfigured == [llm_api_url |-> <<>>, llm_api_key |-> "", llm_model |-> ""]

InitWith(s) ==
    /\ settings = s
    /\ pc = [p \in Procs |-> "idle"]
    /\ req = [p \in Procs |-> NoReq]
    /\ args = [p \in Procs |-> NoArgs]
    /\ raw = [p \in Procs |-> NoRaw]
    /\ cfg = [p \in Procs |-> NoConfig]
    /\ wire = [p \in Procs |-> NoWire]
    /\ sent = [p \in Procs |-> 0]
    /\ called = [p \in Procs |-> FALSE]
    /\ reply = [p \in Procs |-> NoReply]
    /\ ret = [p \in Procs |-> NoRet]
    /\ out = [p \in Procs |-> NoOut]
    /\ changed = [p \in Procs |-> FALSE]

Init == InitWith(Unconfigured)

\* the settings page saves one value; the handlers here never do
UpdateSetting(urls, keys, models) ==
    /\ \E s \in ({[settings EXCEPT !.llm_api_url = u] : u \in urls}
                 \cup {[settings EXCEPT !.llm_api_key = k] : k \in keys}
                 \cup {[settings EXCEPT !.llm_model = m] : m \in models}) :
          /\ s # settings
          /\ settings' = s
    /\ changed' = [p \in Procs |-> changed[p] \/ pc[p] # "idle"]
    /\ UNCHANGED <<pc, req, args, raw, cfg, wire, sent, called, reply, ret, out>>

\* the config callAPI is given: TestConnection's caller built it, GetConfig
\* allocated it otherwise
ConfigOf(p) == IF req[p].op = "test" THEN cfg[p] ELSE cfg[ConfigSlot(p)]

\* a handler is entered with request r and runs up to its first read of the
\* settings (organize, rules) or up to callAPI (test)
Start(p, reqs) ==
    /\ pc[p] = "idle"
    /\ \E r \in reqs :
          /\ req' = [req EXCEPT ![p] = r]
          /\ IF PreCheck(r) # NoOut
             THEN /\ out' = [out EXCEPT ![p] = PreCheck(r)]
                  /\ pc' = [pc EXCEPT ![p] = "done"]
                  /\ UNCHANGED <<args, cfg>>
             ELSE IF r.op = "test"
             THEN /\ cfg' = [cfg EXCEPT ![p] = TestConfig(r)]
                  /\ pc' = [pc EXCEPT ![p] = "call"]
                  /\ UNCHANGED <<args, out>>
             ELSE /\ args' = [args EXCEPT ![p] = HandlerArgs(r)]
                  /\ pc' = [pc EXCEPT ![p] = "getUrl"]
                  /\ UNCHANGED <<cfg, out>>
    /\ changed' = [changed EXCEPT ![p] = FALSE]
    /\ UNCHANGED <<settings, raw, wire, sent, called, reply, ret>>

GetUrl(p) ==
    /\ pc[p] = "getUrl"
    /\ raw' = [raw EXCEPT ![p].apiUrl = GetSetting("llm_api_url")]
    /\ pc' = [pc EXCEPT ![p] = "getKey"]
    /\ UNCHANGED <<settings, req, args, cfg, wire, sent, called, reply, ret, out, changed>>

GetKey(p) ==
    /\ pc[p] = "getKey"
    /\ raw' = [raw EXCEPT ![p].apiKey = GetSetting("llm_api_key")]
    /\ pc' = [pc EXCEPT ![p] = "getModel"]
    /\ UNCHANGED <<settings, req, args, cfg, wire, sent, called, reply, ret, out, changed>>

\* the third read, then the rest of GetConfig
GetModel(p) ==
    /\ pc[p] = "getModel"
    /\ raw' = [raw EXCEPT ![p].model = GetSetting("llm_model")]
    /\ IF ConfigError(raw'[p]) # NoErr
       THEN /\ out' = [out EXCEPT ![p] = ConfigFailure(req[p].op, ConfigError(raw'[p]))]
            /\ pc' = [pc EXCEPT ![p] = "done"]
            /\ UNCHANGED cfg
       ELSE /\ cfg' = [cfg EXCEPT ![ConfigSlot(p)] = MakeConfig(raw'[p])]
            /\ pc' = [pc EXCEPT ![p] = "call"]
            /\ UNCHANGED out
    /\ UNCHANGED <<settings, req, args, wire, sent, called, reply, ret, changed>>

\* the prompts are built and callAPI runs up to client.Do
Call(p) ==
    /\ pc[p] = "call"
    /\ called' = [called EXCEPT ![p] = TRUE]
    /\ LET w == MakeRequest(ConfigOf(p), BuildMessages(req[p].op, args[p])) IN
       IF urlParseFails(w.endpoint)
       THEN /\ ret' = [ret EXCEPT ![p] = callAPINewRequestFailed]
            /\ out' = [out EXCEPT ![p] = HandlerOutcome(req[p].op, callAPINewRequestFailed)]
            /\ pc' = [pc EXCEPT ![p] = "done"]
            /\ UNCHANGED <<wire, sent>>
       ELSE /\ wire' = [wire EXCEPT ![p] = w]
            /\ sent' = [sent EXCEPT ![p] = @ + 1]
            /\ pc' = [pc EXCEPT ![p] = "wait"]
            /\ UNCHANGED <<ret, out>>
    /\ UNCHANGED <<settings, req, args, raw, cfg, reply, changed>>

\* client.Do returns with r; callAPI, its caller and the handler finish
Respond(p, replies) ==
    /\ pc[p] = "wait"
    /\ \E r \in replies :
          /\ reply' = [reply EXCEPT ![p] = r]
          /\ ret' = [ret EXCEPT ![p] = callAPIResponse(r)]
          /\ pc' = [pc EXCEPT ![p] = AfterReply(r)]
          /\ out' = [out EXCEPT ![p] =
                        IF AfterReply(r) = "done"
                        THEN HandlerOutcome(req[p].op, callAPIResponse(r))
                        ELSE @]
    /\ UNCHANGED <<settings, req, args, raw, cfg, wire, sent, called, changed>>

\* the handler has answered; its locals are gone
Finish(p) ==
    /\ pc[p] = "done"
    /\ pc' = [pc EXCEPT ![p] = "idle"]
    /\ req' = [req EXCEPT ![p] = NoReq]
    /\ args' = [args EXCEPT ![p] = NoArgs]
    /\ raw' = [raw EXCEPT ![p] = NoRaw]
    /\ cfg' = [cfg EXCEPT ![p] = NoConfig]
    /\ wire' = [wire EXCEPT ![p] = NoWire]
    /\ sent' = [sent EXCEPT ![p] = 0]
    /\ called' = [called EXCEPT ![p] = FALSE]
    /\ reply' = [reply EXCEPT ![p] = NoReply]
    /\ ret' = [ret EXCEPT ![p] = NoRet]
    /\ out' = [out EXCEPT ![p] = NoOut]
    /\ changed' = [changed EXCEPT ![p] = FALSE]
    /\ UNCHANGED settings

\* ------------------------------------------------------ specifications
\* One handler at a time, any request, any reply, any settings update.
Next ==
    \/ UpdateSetting(SettingUrls, SettingKeys, SettingModels)
    \/ \E p \in {1} :
          \/ Start(p, Requests)
          \/ GetUrl(p)
          \/ GetKey(p)
          \/ GetModel(p)
          \/ Call(p)
          \/ Respond(p, Replies)
          \/ Finish(p)

Spec == Init /\ [][Next]_vars

\* The connection test alone, over many base URLs.
UrlPieces ==
    {<<"h">>, <<"/">>, <<"v", "1">>, V1Suffix, ChatCompletionsSuffix,
     SubSeq(ChatCompletionsSuffix, 2, Len(ChatCompletionsSuffix))}

RECURSIVE Flatten(_)
Flatten(ss) == IF ss = <<>> THEN <<>> ELSE Head(ss) \o Flatten(Tail(ss))

UrlInputs == {Flatten(ss) : ss \in UNION {[1 .. n -> UrlPieces] : n \in 0 .. MaxSegs}}

UrlReplies ==
    {[NoReply EXCEPT !.net = "refused"],
     [net |-> "ok", status |-> 200, readOK |-> TRUE,
      body |-> [json |-> "object", tag |-> "list", items |-> <<"ok">>]]}

NextURL ==
    \E p \in {1} :
        \/ Start(p, TestRequests(UrlInputs))
        \/ Call(p)
        \/ Respond(p, UrlReplies)
        \/ Finish(p)

SpecURL == Init /\ [][NextURL]_vars

\* Handlers running concurrently, over a few requests, replies and updates.
Configured ==
    [llm_api_url |-> HostUrl \o <<"/">>, llm_api_key |-> "sk-1", llm_model |-> ""]

ConcRequests ==
    {r \in OrganizeRequests : Len(r.Nodes) = 1 /\ r.Nodes[1].ID = 2 /\ r.Instruction = ""}
    \cup {r \in TestRequests({HostUrl}) : r.APIKey # "" /\ r.Model # ""}

ConcReplies ==
    {[net |-> "ok", status |-> 500, readOK |-> TRUE, body |-> [NoBody EXCEPT !.json = "invalid"]],
     [net |-> "ok", status |-> 200, readOK |-> TRUE,
      body |-> [json |-> "object", tag |-> "list", items |-> <<"ok">>]]}

InitConc == InitWith(Configured)

NextConc ==
    \/ UpdateSetting(SettingUrls, {Configured.llm_api_key}, SettingModels)
    \/ \E p \in Procs :
          \/ Start(p, ConcRequests)
          \/ GetUrl(p)
          \/ GetKey(p)
          \/ GetModel(p)
          \/ Call(p)
          \/ Respond(p, ConcReplies)
          \/ Finish(p)

SpecConc == InitConc /\ [][NextConc]_vars

\* ------------------------------------------------------------- claims
\* The invocation of p got as far as calling callAPI and has returned.
Returned(p) == pc[p] = "done" /\ called[p]

\* The reply to p's request arrived whole: status line and body.
GotReply(p) == Returned(p) /\ sent[p] = 1 /\ reply[p].net = "ok" /\ reply[p].readOK

\* u ends with x, stated without SubSeq arithmetic on the suffix
EndsWith(u, x) == \E i \in 0 .. Len(u) : u = SubSeq(u, 1, i) \o x

\* u without its trailing "/" units: the prefix that does not end in "/" and
\* is followed by "/" units only
WithoutTrailingSlashes(u) ==
    LET i == CHOOSE k \in 0 .. Len(u) :
                /\ k = 0 \/ u[k] # "/"
                /\ \A j \in k + 1 .. Len(u) : u[j] = "/"
    IN SubSeq(u, 1, i)

ThreeWayRule(u) ==
    IF EndsWith(u, ChatCompletionsSuffix) THEN u
    ELSE IF EndsWith(u, <<"/", "v", "1">>) THEN u \o ChatCompletionsSuffix
    ELSE WithoutTrailingSlashes(u) \o <<"/", "v", "1">> \o ChatCompletionsSuffix

\* C1: for every non-empty base URL the endpoint a request goes to is the
\* base URL itself if it ends with /chat/completions, else the base URL plus
\* /chat/completions if it ends with /v1, else the base URL without all its
\* trailing slashes plus /v1/chat/completions.
C1_ThreeWayRule ==
    \A p \in Procs :
        (req[p].op = "test" /\ wire[p].set /\ req[p].APIUrl # <<>>)
            => wire[p].endpoint = ThreeWayRule(req[p].APIUrl)

\* a request went out for a base URL that ends in two slashes
C1_Witness ==
    \E p \in Procs :
        /\ wire[p].set
        /\ req[p].APIUrl = <<"h", "/", "/">>
        /\ wire[p].endpoint = <<"h">> \o V1ChatCompletions

\* C2 as claimed: every invocation of callAPI that has returned issued
\* exactly one upstream request.
C2_ExactlyOneAlways ==
    \A p \in Procs : Returned(p) => sent[p] = 1

\* C2 amended: an invocation of callAPI never issues a second request, and
\* once it has returned it has issued one request, unless http.NewRequest
\* rejected the endpoint, in which case it has issued none.
C2_OnceUnlessNotBuilt ==
    \A p \in Procs :
        /\ sent[p] <= 1
        /\ Returned(p) =>
              sent[p] = (IF ret[p].err.kind = "NewRequestFailed" THEN 0 ELSE 1)

\* callAPI has returned a parse failure after its one request
C2_Witness ==
    \E p \in Procs :
        Returned(p) /\ ret[p].err.kind = "ParseFailed" /\ sent[p] = 1

\* The invocation of p has an empty endpoint URL or an empty API key: the
\* values GetConfig read for organize and rules, the request's for the test.
MissingConfig(p) ==
    \/ /\ req[p].op \in {"organize", "rules"}
       /\ pc[p] \in {"call", "wait", "done"}
       /\ req[p].bindOK /\ req[p].Nodes # <<>>
       /\ raw[p].apiUrl = <<>> \/ raw[p].apiKey = ""
    \/ /\ req[p].op = "test"
       /\ req[p].bindOK
       /\ req[p].APIUrl = <<>> \/ req[p].APIKey = ""

\* C3: with an empty endpoint URL or API key the operation fails with the
\* missing-configuration error and no upstream request is ever issued.
C3_NoCallWithoutConfig ==
    \A p \in Procs :
        MissingConfig(p) =>
            /\ sent[p] = 0 /\ ~wire[p].set /\ ~called[p]
            /\ pc[p] = "done"
            /\ out[p].code = "fail"
            /\ \/ out[p].err.kind \in {"MissingAPIUrl", "MissingAPIKey"}
               \/ out[p].msg = "TestMissingConfig"

\* organize-nodes has failed on a store that holds a URL and no key
C3_Witness ==
    \E p \in Procs :
        /\ req[p].op = "organize" /\ pc[p] = "done"
        /\ raw[p].apiUrl # <<>> /\ raw[p].apiKey = ""
        /\ out[p].err.kind = "MissingAPIKey"

\* C4: on a 200 reply whose body parses to a response with at least one
\* choice, callAPI returns no error and the content of the choice at
\* position 0, unchanged.
C4_FirstChoiceContent ==
    \A p \in Procs :
        (/\ GotReply(p)
         /\ reply[p].status = 200
         /\ reply[p].body.json = "object" /\ reply[p].body.tag = "list"
         /\ Len(reply[p].body.items) >= 1)
            => /\ ret[p].err = NoErr
               /\ ret[p].result = reply[p].body.items[1]

\* callAPI has returned the empty content of the first of two choices
C4_Witness ==
    \E p \in Procs :
        /\ GotReply(p) /\ reply[p].status = 200
        /\ reply[p].body.items = <<"", "ok">>
        /\ ret[p] = [result |-> "", err |-> NoErr]

NoChoiceReply(r) ==
    /\ r.net = "ok" /\ r.readOK /\ r.status = 200
    /\ \/ r.body.json = "null"
       \/ /\ r.body.json = "object"
          /\ \/ r.body.tag \in {"absent", "null"}
             \/ r.body.tag = "list" /\ r.body.items = <<>>

\* C6: on a 200 reply with valid JSON and no choice callAPI fails with the
\* empty-result error, and with that error in no other case (not for a body
\* that cannot be parsed, a non-200 status or a network error).
C6_EmptyResultDistinct ==
    \A p \in Procs :
        (Returned(p) /\ sent[p] = 1)
            => /\ NoChoiceReply(reply[p]) => ret[p] = [result |-> "", err |-> Err("EmptyResult")]
               /\ ~NoChoiceReply(reply[p]) => ret[p].err.kind # "EmptyResult"

\* callAPI has failed with the empty-result error on an empty choices list
C6_Witness ==
    \E p \in Procs :
        /\ GotReply(p) /\ reply[p].status = 200
        /\ reply[p].body.tag = "list" /\ reply[p].body.items = <<>>
        /\ ret[p].err.kind = "EmptyResult"

\* C7: the connection test sends one fixed one-message conversation and
\* succeeds exactly when callAPI returns no error and a non-empty text; in
\* every other case it returns an error.
C7_TestConnection ==
    \A p \in Procs :
        (req[p].op = "test" /\ called[p])
            => /\ wire[p].set =>
                    /\ Len(wire[p].body.messages) = 1
                    /\ wire[p].body.messages[1].Role = "user"
                    /\ wire[p].body.messages[1].Content =
                          [template |-> "reply-ok", nodes |-> <<>>, args |-> <<>>]
               /\ pc[p] = "done" =>
                    /\ out[p].code = "ok" <=> (ret[p].err = NoErr /\ ret[p].result # "")
                    /\ out[p].code # "ok" => (out[p].code = "fail" /\ out[p].err # NoErr)

\* the connection test has failed on a reply whose first choice is empty
C7_Witness ==
    \E p \in Procs :
        /\ req[p].op = "test" /\ Returned(p)
        /\ ret[p] = [result |-> "", err |-> NoErr]
        /\ out[p].code = "fail" /\ out[p].err.kind = "EmptyReply"

\* The requests that differ from r in link values only, protocol tags equal.
LinkVariants(r) ==
    LET links == {n.Link : n \in NodeSet}
        same == {f \in [1 .. Len(r.Nodes) -> links] :
                    \A i \in 1 .. Len(r.Nodes) :
                        GetProtocolFromLink(f[i]) = GetProtocolFromLink(r.Nodes[i].Link)}
    IN {[r EXCEPT !.Nodes = [i \in 1 .. Len(r.Nodes) |-> [r.Nodes[i] EXCEPT !.Link = f[i]]]] :
            f \in same}

\* the node list embedded in the user message of an outbound request
SentNodes(p) == wire[p].body.messages[2].Content.nodes

\* C8: the outbound node list holds, for each node, its id, name, protocol
\* tag, country and group and nothing else, and requests that differ only in
\* links with equal protocol tags produce the same outbound messages.
C8_LinkNotSent ==
    \A p \in Procs :
        (req[p].op \in {"organize", "rules"} /\ wire[p].set)
            => /\ Len(SentNodes(p)) = Len(req[p].Nodes)
               /\ \A i \in 1 .. Len(req[p].Nodes) :
                     SentNodes(p)[i] =
                        << <<"id", req[p].Nodes[i].ID>>,
                           <<"name", req[p].Nodes[i].Name>>,
                           <<"protocol", GetProtocolFromLink(req[p].Nodes[i].Link)>>,
                           <<"country", req[p].Nodes[i].Country>>,
                           <<"group", req[p].Nodes[i].Group>> >>
               /\ \A r2 \in LinkVariants(req[p]) :
                     BuildMessages(r2.op, HandlerArgs(r2)) = wire[p].body.messages

\* a request went out whose links can vary under the same protocol tags
C8_Witness ==
    \E p \in Procs :
        /\ req[p].op = "rules" /\ wire[p].set
        /\ Len(req[p].Nodes) = 2
        /\ \E r2 \in LinkVariants(req[p]) : r2.Nodes[1].Link # req[p].Nodes[1].Link

\* The handler run alone on request r, with a store that holds the values
\* rawRead and an upstream that answers rep: its answer and its request.
RunAlone(r, rawRead, rep) ==
    IF PreCheck(r) # NoOut THEN [out |-> PreCheck(r), wire |-> NoWire]
    ELSE IF r.op # "test" /\ ConfigError(rawRead) # NoErr
    THEN [out |-> ConfigFailure(r.op, ConfigError(rawRead)), wire |-> NoWire]
    ELSE LET config == IF r.op = "test" THEN TestConfig(r) ELSE MakeConfig(rawRead)
             w == MakeRequest(config, BuildMessages(r.op, HandlerArgs(r)))
         IN IF urlParseFails(w.endpoint)
            THEN [out |-> HandlerOutcome(r.op, callAPINewRequestFailed), wire |-> NoWire]
            ELSE [out |-> HandlerOutcome(r.op, callAPIResponse(rep)), wire |-> w]

\* C9: in every interleaving of concurrent invocations, each one's request
\* and answer are those of the same invocation run alone with its own
\* arguments, the configuration it read and the reply to its own request.
C9_AsIfAlone ==
    \A p \in Procs :
        pc[p] = "done" =>
            /\ out[p] = RunAlone(req[p], raw[p], reply[p]).out
            /\ wire[p] = RunAlone(req[p], raw[p], reply[p]).wire

\* one invocation has finished on the current settings while another,
\* started before the last settings update with another model, still waits
C9_Witness ==
    /\ pc[1] = "done" /\ sent[1] = 1 /\ ~changed[1]
    /\ pc[2] = "wait" /\ changed[2]
    /\ req[1].op = "organize" /\ req[2].op = "organize"
    /\ wire[1].body.model # wire[2].body.model

\* an organize or rules request of p went out and the store was not updated
\* since p started
FreshRun(p) == req[p].op \in {"organize", "rules"} /\ wire[p].set /\ ~changed[p]

\* C10: each organize or rules invocation uses the endpoint, key and model
\* the store holds at the time of the invocation, the model replaced by
\* gpt-3.5-turbo when unset: every read takes the store's value of that
\* moment, the request is built from the values read, so that without an
\* update in between it carries the store's current values; and no step of
\* a handler writes the store.
C10_FreshConfig ==
    /\ [](\A p \in Procs :
            (req[p].op \in {"organize", "rules"} /\ wire[p].set) =>
                /\ wire[p].endpoint = buildEndpointURL(raw[p].apiUrl)
                /\ wire[p].auth = <<"Bearer ", raw[p].apiKey>>
                /\ wire[p].body.model =
                      (IF raw[p].model = "" THEN "gpt-3.5-turbo" ELSE raw[p].model))
    /\ [](\A p \in Procs :
            FreshRun(p) =>
                /\ wire[p].endpoint = buildEndpointURL(settings.llm_api_url)
                /\ wire[p].auth = <<"Bearer ", settings.llm_api_key>>
                /\ wire[p].body.model =
                      (IF settings.llm_model = "" THEN "gpt-3.5-turbo"
                       ELSE settings.llm_model))
    /\ [][\A p \in Procs :
            /\ (pc[p] = "getUrl" /\ pc'[p] # pc[p]) => raw'[p].apiUrl = settings.llm_api_url
            /\ (pc[p] = "getKey" /\ pc'[p] # pc[p]) => raw'[p].apiKey = settings.llm_api_key
            /\ (pc[p] = "getModel" /\ pc'[p] # pc[p]) => raw'[p].model = settings.llm_model]_vars
    /\ [][pc' # pc => settings' = settings]_vars

\* a request went out with the default model after the store was configured
\* without one
C10_Witness ==
    \E p \in Procs :
        /\ FreshRun(p)
        /\ settings.llm_model = "" /\ wire[p].body.model = "gpt-3.5-turbo"
        /\ settings.llm_api_key = "sk-1"
====
